---- MODULE Spec2Model ----
(***************************************************************************)
(* Model of randomize.hpp (namespace randomize): rand(min, max),           *)
(* get_rand(min, max) and rand<T, min, max>() for integral types T.        *)
(*                                                                         *)
(* Function-local statics of a function template exist once per            *)
(* specialization: get_rand_impl<T> has one seed_time, one engine and one  *)
(* generators map per T; rand_impl<T, min, max> has one seed_time, one     *)
(* generator and one engine per (T, min, max).                             *)
(***************************************************************************)
EXTENDS Integers, Sequences, FiniteSets, TLC

\* ---------------------------------------------------------------- bounds
MaxSteps == 4        \* calls of the library modelled in one run
MaxSamplers == 2     \* closures returned by get_rand that are kept alive

\* ----------------------------------------------------------------- types
\* The integral types modelled: short and unsigned short.
Types == {"short", "ushort"}

numeric_limits_min(T) == IF T = "short" THEN -32768 ELSE 0
numeric_limits_max(T) == IF T = "short" THEN 32767 ELSE 65535

range_min(T) == numeric_limits_min(T)

range_max_of_int(T) == 2147483647
range_max(T) == numeric_limits_max(T)

\* Arguments (min, max) tried.  The first two pairs of a type have the same
\* hash; (1, 0) is an inverted range.  The hash of a pair of short wraps
\* around when min < -527.
ArgPairs(T) ==
    IF T = "short" THEN {<<-600, 31>>, <<-599, 0>>, <<1, 0>>}
                   ELSE {<<0, 32>>, <<1, 1>>, <<1, 0>>}
\* Values of T sampled as results of a draw, besides the two ends.
Representatives(T) ==
    {v \in {-1, 0, 2, numeric_limits_min(T), numeric_limits_max(T)} :
        numeric_limits_min(T) <= v /\ v <= numeric_limits_max(T)}

\* ------------------------------------------------------------- hash_pair
\* x & 0x7fffffff for a std::size_t that holds x modulo 2^64, |x| < 2^31.
Mask31(x) == IF x >= 0 THEN x ELSE (x + 2147483647) + 1

hash_pair(p) == Mask31((17 * 31 + p[1]) * 31 + p[2]) % 100003

\* ------------------------------------------------------ the distribution
uniform_distribution_from_zero(min, max) == [a |-> 0, b |-> max]
uniform_distribution(min, max) == [a |-> min, b |-> max]

\* std::uniform_int_distribution<T>{}: a = 0, b = numeric_limits<T>::max().
default_distribution(T) == [a |-> 0, b |-> numeric_limits_max(T)]

\* distribution(engine): any value of [a, b]; a > b breaks the precondition
\* of the distribution, the value is then any value of T.
DrawValues(T, d) ==
    IF d.a <= d.b
    THEN {d.a, d.b} \cup {v \in Representatives(T) : d.a <= v /\ v <= d.b}
    ELSE Representatives(T) \cup {d.a, d.b}

\* ------------------------------------------------------------ the engine
NoEngine == [seeded |-> FALSE, seed_time |-> 0, draws |-> 0]

\* gen_seed(): the reading of the clock, converted to unsigned.
gen_seed(now) == now

\* static unsigned seed_time{gen_seed()}; static auto engine = mt19937_64{seed_time};
\* Both are initialised by the first call that reaches them, never again.
static_engine_reseeded(e, now) == [seeded |-> TRUE, seed_time |-> gen_seed(now), draws |-> 0]
static_engine(e, now) ==
    IF e.seeded THEN e ELSE [seeded |-> TRUE, seed_time |-> gen_seed(now), draws |-> 0]

\* The clock after the statics were (or were not) initialised.
tick(e, now) == IF e.seeded THEN now ELSE now + 1

advance(e) == [e EXCEPT !.draws = @ + 1]

\* ------------------------------------------------- the generators map
\* A map is the sequence of its nodes [h, key, dist] in insertion order.
key_eq_hash_only(h, k, node) == node.h = h
key_eq(h, k, node) == node.h = h /\ node.key = k

find(m, k) == {i \in 1..Len(m) : key_eq(hash_pair(k), k, m[i])}

contains(m, k) == find(m, k) # {}

at(m, k) == m[CHOOSE i \in find(m, k) : \A j \in find(m, k) : i <= j]

node(k, d) == [h |-> hash_pair(k), key |-> k, dist |-> d]

\* generators.emplace(key, dist): inserts unless an equal key is present.
emplace_discard(m, k, d) == m
emplace_multi(m, k, d) == Append(m, node(k, d))
emplace(m, k, d) == IF contains(m, k) THEN m ELSE Append(m, node(k, d))

\* generators[key]: inserts a default-constructed distribution when absent,
\* and refers to the mapped distribution.
subscript_reset(T, m, k) ==
    IF \A i \in 1..Len(m) : m[i].key # k
    THEN Append(m, node(k, default_distribution(T)))
    ELSE [i \in 1..Len(m) |->
            IF m[i].key = k THEN node(k, default_distribution(T)) ELSE m[i]]
subscript(T, m, k) ==
    IF contains(m, k) THEN m ELSE Append(m, node(k, default_distribution(T)))

Keys(m) == {m[i].key : i \in 1..Len(m)}

\* ------------------------------------------------------------- the state
\* rand<T, min, max> specializations the program instantiates.
TemplateSpecs ==
    { <<"short", range_min("short"), range_max("short")>>,
      <<"ushort", range_min("ushort"), range_max("ushort")>>,
      <<"short", 1, 6>> }

NoGenerator == [a |-> 1, b |-> 0]
\* What a call that returns no value leaves in last.ret: a value of no type T.
NoValue == numeric_limits_min("short") - 1

VARIABLES
    engine,      \* get_rand_impl<T>: static seed_time and engine, per T
    generators,  \* get_rand_impl<T>: static generators, per T
    samplers,    \* the closures f returned by get_rand and still held
    tengine,     \* rand_impl<T, min, max>: static seed_time and engine
    tgenerator,  \* rand_impl<T, min, max>: static generator
    clock,       \* the high resolution clock
    last,        \* the last call and what it returned
    terminated,  \* the process was aborted
    requested,   \* history: the (min, max) pairs passed so far, per T
    steps,       \* history: the number of calls so far
    thr          \* concurrent model: where each thread is

vars == <<engine, generators, samplers, tengine, tgenerator, clock, last,
          terminated, requested, steps, thr>>

Threads == {"t1", "t2"}
Idle == [pc |-> "idle", T |-> "short", key |-> <<0, 0>>, dist |-> NoGenerator]

Call(op, T, min, max, status, ret) ==
    [op |-> op, T |-> T, min |-> min, max |-> max, status |-> status, ret |-> ret]

Init ==
    /\ engine = [T \in Types |-> NoEngine]
    /\ generators = [T \in Types |-> <<>>]
    /\ samplers = <<>>
    /\ tengine = [s \in TemplateSpecs |-> NoEngine]
    /\ tgenerator = [s \in TemplateSpecs |-> NoGenerator]
    /\ clock = 1
    /\ last = Call("none", "short", 0, 0, "none", NoValue)
    /\ terminated = FALSE
    /\ requested = [T \in Types |-> {}]
    /\ steps = 0
    /\ thr = [t \in Threads |-> Idle]

\* What constructing the distribution of (min, max) can do: min > max breaks
\* the precondition a <= b of std::uniform_int_distribution, which a build
\* with library assertions aborts on and any other build does not check.
Outcomes(min, max) == IF min <= max THEN {"ok"} ELSE {"unchecked", "abort"}

Running == ~terminated /\ steps < MaxSteps

\* get_rand(min, max) -> get_rand_impl<T>(min, max)
GetRand(T, min, max) ==
    /\ Running
    /\ Len(samplers) < MaxSamplers
    /\ steps' = steps + 1
    /\ engine' = [engine EXCEPT ![T] = static_engine(@, clock)]
    /\ clock' = tick(engine[T], clock)
    /\ requested' = [requested EXCEPT ![T] = @ \cup {<<min, max>>}]
    /\ \E o \in Outcomes(min, max) :
        IF o = "abort"
        THEN /\ terminated' = TRUE
             /\ last' = Call("get_rand", T, min, max, "abort", NoValue)
             /\ UNCHANGED <<generators, samplers>>
        ELSE /\ generators' = [generators EXCEPT
                     ![T] = emplace(@, <<min, max>>, uniform_distribution(min, max))]
             /\ samplers' = Append(samplers, [T |-> T, key |-> <<min, max>>])
             /\ last' = Call("get_rand", T, min, max, "ok", NoValue)
             /\ UNCHANGED terminated
    /\ UNCHANGED <<tengine, tgenerator, thr>>

\* rand(min, max) -> rand_impl(min, max): f = get_rand_impl(min, max); f()
Rand(T, min, max) ==
    /\ Running
    /\ steps' = steps + 1
    /\ clock' = tick(engine[T], clock)
    /\ requested' = [requested EXCEPT ![T] = @ \cup {<<min, max>>}]
    /\ \E o \in Outcomes(min, max) :
        IF o = "abort"
        THEN /\ terminated' = TRUE
             /\ engine' = [engine EXCEPT ![T] = static_engine(@, clock)]
             /\ last' = Call("rand", T, min, max, "abort", NoValue)
             /\ UNCHANGED generators
        ELSE LET emplaced == emplace(generators[T], <<min, max>>,
                                     uniform_distribution(min, max))
                 looked == subscript(T, emplaced, <<min, max>>)
             IN  /\ generators' = [generators EXCEPT ![T] = looked]
                 /\ engine' = [engine EXCEPT ![T] = advance(static_engine(@, clock))]
                 /\ \E v \in DrawValues(T, at(looked, <<min, max>>).dist) :
                     last' = Call("rand", T, min, max, "ok", v)
                 /\ UNCHANGED terminated
    /\ UNCHANGED <<samplers, tengine, tgenerator, thr>>

\* f(): return generators[key](engine);
Invoke(i) ==
    /\ Running
    /\ i \in 1..Len(samplers)
    /\ steps' = steps + 1
    /\ LET T == samplers[i].T
           key == samplers[i].key
           looked == subscript(T, generators[T], key)
       IN  /\ generators' = [generators EXCEPT ![T] = looked]
           /\ engine' = [engine EXCEPT ![T] = advance(@)]
           /\ \E v \in DrawValues(T, at(looked, key).dist) :
               last' = Call("f", T, key[1], key[2], "ok", v)
    /\ UNCHANGED <<samplers, tengine, tgenerator, clock, terminated, requested, thr>>

\* static auto generator = uniform_distribution<T, min, max>();
static_generator_rebuilt(T, g, d) == default_distribution(T)
static_generator(T, g, d) == IF g = NoGenerator THEN d ELSE g

\* rand<T, min, max>() -> rand_impl<T, min, max>()
RandT(spec) ==
    /\ Running
    /\ steps' = steps + 1
    /\ clock' = tick(tengine[spec], clock)
    /\ LET T == spec[1]
           g == static_generator(T, tgenerator[spec], uniform_distribution(spec[2], spec[3]))
       IN  /\ tgenerator' = [tgenerator EXCEPT ![spec] = g]
           /\ tengine' = [tengine EXCEPT ![spec] = advance(static_engine(@, clock))]
           /\ \E v \in DrawValues(T, g) :
               last' = Call("rand_t", T, spec[2], spec[3], "ok", v)
    /\ UNCHANGED <<engine, generators, samplers, terminated, requested, thr>>

Next ==
    \/ \E T \in Types : \E p \in ArgPairs(T) : GetRand(T, p[1], p[2])
    \/ \E T \in Types : \E p \in ArgPairs(T) : Rand(T, p[1], p[2])
    \/ \E i \in 1..MaxSamplers : Invoke(i)
    \/ \E spec \in TemplateSpecs : RandT(spec)

Spec == Init /\ [][Next]_vars

\* ------------------------------------------------- two threads, one type
\* The threads run get_rand_impl<T> and the closures it returns.  The
\* initialisation of the statics is the only step the language makes atomic;
\* an access of generators or of engine takes time, from the step that enters
\* it to the step that leaves it.  pc: "idle", "emplace" (inside
\* generators.emplace), "held" (holds a closure), "lookup" (inside
\* generators[key]), "draw" (inside distribution(engine)).
ValidPairs(T) == {p \in ArgPairs(T) : p[1] <= p[2]}

InAccess(th, u) == th[u].pc \in {"emplace", "lookup", "draw"}

\* get_rand_impl and its closure take no lock before they touch the statics.
may_enter_locked(th, t) == \A u \in Threads : u # t => ~InAccess(th, u)
may_enter(th, t) == TRUE

\* Another thread is inside an access of the same map while t writes it, or
\* writes it while t accesses it.
CacheConflict(t) ==
    \E u \in Threads :
        /\ u # t /\ thr[u].T = thr[t].T
        /\ \/ thr[t].pc = "emplace" /\ thr[u].pc \in {"emplace", "lookup"}
           \/ thr[t].pc = "lookup" /\ thr[u].pc = "emplace"

\* Another thread advances the same engine while t advances it.
EngineConflict(t) ==
    \E u \in Threads :
        u # t /\ thr[u].T = thr[t].T /\ thr[t].pc = "draw" /\ thr[u].pc = "draw"

seqvars == <<samplers, tengine, tgenerator, terminated, requested>>

\* get_rand_impl<T>(min, max), up to the call of generators.emplace
T_GetRand(t, T, min, max) ==
    /\ steps < MaxSteps
    /\ thr[t].pc \in {"idle", "held"}
    /\ may_enter(thr, t)
    /\ steps' = steps + 1
    /\ engine' = [engine EXCEPT ![T] = static_engine(@, clock)]
    /\ clock' = tick(engine[T], clock)
    /\ thr' = [thr EXCEPT ![t] = [pc |-> "emplace", T |-> T, key |-> <<min, max>>,
                                  dist |-> NoGenerator]]
    /\ last' = Call("get_rand", T, min, max, "ok", NoValue)
    /\ UNCHANGED <<generators, seqvars>>

\* generators.emplace(key, ...) returns.  A conflicting access is a data race:
\* the insertion takes place or is lost.
T_Emplaced(t) ==
    /\ thr[t].pc = "emplace"
    /\ LET T == thr[t].T
           done == emplace(generators[T], thr[t].key,
                           uniform_distribution(thr[t].key[1], thr[t].key[2]))
       IN  \E m \in (IF CacheConflict(t) THEN {done, generators[T]} ELSE {done}) :
               generators' = [generators EXCEPT ![T] = m]
    /\ thr' = [thr EXCEPT ![t].pc = "held"]
    /\ UNCHANGED <<engine, clock, last, steps, seqvars>>

\* f() is called: generators[key] is entered.
T_Invoke(t) ==
    /\ steps < MaxSteps
    /\ thr[t].pc = "held"
    /\ may_enter(thr, t)
    /\ steps' = steps + 1
    /\ thr' = [thr EXCEPT ![t].pc = "lookup"]
    /\ UNCHANGED <<engine, generators, clock, last, seqvars>>

\* generators[key] returns the distribution; distribution(engine) is entered.
T_Looked(t) ==
    /\ thr[t].pc = "lookup"
    /\ LET T == thr[t].T
           looked == subscript(T, generators[T], thr[t].key)
       IN  /\ generators' = [generators EXCEPT ![T] = looked]
           /\ thr' = [thr EXCEPT ![t].pc = "draw",
                                 ![t].dist = at(looked, thr[t].key).dist]
    /\ UNCHANGED <<engine, clock, last, steps, seqvars>>

\* distribution(engine) returns.  A conflicting advance is a data race: the
\* engine keeps one advance or both, and the value is any value of T.
T_Drawn(t) ==
    /\ thr[t].pc = "draw"
    /\ LET T == thr[t].T
       IN  /\ \E e \in (IF EngineConflict(t) THEN {advance(engine[T]), engine[T]}
                                            ELSE {advance(engine[T])}) :
                 engine' = [engine EXCEPT ![T] = e]
           /\ \E v \in (IF EngineConflict(t)
                        THEN DrawValues(T, thr[t].dist) \cup Representatives(T)
                        ELSE DrawValues(T, thr[t].dist)) :
                 last' = Call("f", T, thr[t].key[1], thr[t].key[2], "ok", v)
    /\ thr' = [thr EXCEPT ![t].pc = "held"]
    /\ UNCHANGED <<generators, clock, steps, seqvars>>

NextConc ==
    \/ \E t \in Threads, T \in Types : \E p \in ValidPairs(T) :
            T_GetRand(t, T, p[1], p[2])
    \/ \E t \in Threads : T_Emplaced(t)
    \/ \E t \in Threads : T_Invoke(t)
    \/ \E t \in Threads : T_Looked(t)
    \/ \E t \in Threads : T_Drawn(t)

SpecConc == Init /\ [][NextConc]_vars

\* ------------------------------------------------------------ properties
InRange(v, min, max) == min <= v /\ v <= max

Returned(op) == last.op = op /\ last.status = "ok"

\* The step is a call of op that returned.
Stepped(op) == steps' = steps + 1 /\ last'.op = op /\ last'.status = "ok"

Seeds(e) == [x \in DOMAIN e |-> <<e[x].seeded, e[x].seed_time>>]

\* C1: every rand(min, max) with min <= max returns a value of [min, max],
\* whatever was called before it.
C1_RandInRange ==
    (Returned("rand") /\ last.min <= last.max)
        => InRange(last.ret, last.min, last.max)

\* rand<short>(-600, 31) returned 31 after a sampler of another range of the
\* type, of the same hash, was created and other calls were made.
C1_Witness ==
    /\ Returned("rand") /\ last.T = "short"
    /\ last.min = -600 /\ last.max = 31 /\ last.ret = 31
    /\ steps >= 3
    /\ \E i \in 1..Len(samplers) :
            samplers[i].T = "short" /\ samplers[i].key = <<-599, 0>>

\* C2: a sampler of (min, max), min <= max, returns a value of [min, max] on
\* every invocation, whatever other samplers of the type exist, and the
\* distribution its key maps to is the one of its own range.
C2_SamplerOwnRange ==
    /\ (Returned("f") /\ last.min <= last.max)
            => InRange(last.ret, last.min, last.max)
    /\ \A i \in 1..Len(samplers) :
        LET T == samplers[i].T
            key == samplers[i].key
        IN  /\ contains(generators[T], key)
            /\ at(generators[T], key).dist = [a |-> key[1], b |-> key[2]]

\* The sampler of (1, 1) was invoked after the sampler of (0, 32), of the same
\* type and of the same hash, was created and invoked.
C2_Witness ==
    /\ Returned("f") /\ last.T = "ushort"
    /\ last.min = 1 /\ last.max = 1 /\ last.ret = 1
    /\ hash_pair(<<0, 32>>) = hash_pair(<<1, 1>>)
    /\ Len(samplers) = 2
    /\ samplers[1] = [T |-> "ushort", key |-> <<0, 32>>]
    /\ samplers[2] = [T |-> "ushort", key |-> <<1, 1>>]
    /\ engine["ushort"].draws = 2

SeededEngines ==
    {<<"get_rand_impl", T>> : T \in {U \in Types : engine[U].seeded}}
        \cup {<<"rand_impl", sp>> : sp \in {x \in TemplateSpecs : tengine[x].seeded}}

\* C3 as stated: one engine, seeded once, for the whole process.
C3_SingleEngine == Cardinality(SeededEngines) <= 1 /\ clock <= 2

OnlyAdvanced(e1, e2, x) ==
    /\ e2[x].draws = e1[x].draws + 1
    /\ \A y \in DOMAIN e1 : y # x => e2[y] = e1[y]

\* C3 amended: there is one engine per type T for get_rand(min, max) and
\* rand(min, max), and one per specialization for rand<T, min, max>(); each is
\* seeded once, by the first call that reaches it, and every draw advances
\* the engine of its own type or specialization and no other.  Samplers and
\* ranges of one type share the engine of the type.
C3_EnginePerSpecialization ==
    [][ /\ \A T \in Types : engine[T].seeded =>
              /\ Seeds(engine')[T] = Seeds(engine)[T]
              /\ engine'[T].draws >= engine[T].draws
        /\ \A sp \in TemplateSpecs : tengine[sp].seeded =>
              /\ Seeds(tengine')[sp] = Seeds(tengine)[sp]
              /\ tengine'[sp].draws >= tengine[sp].draws
        /\ (Stepped("rand") \/ Stepped("f")) =>
              /\ engine'[last'.T].seeded
              /\ \A T \in Types : T # last'.T => engine'[T] = engine[T]
              /\ engine'[last'.T].draws = engine[last'.T].draws + 1
              /\ tengine' = tengine
        /\ Stepped("rand_t") =>
              /\ tengine'[<<last'.T, last'.min, last'.max>>].seeded
              /\ \A sp \in TemplateSpecs :
                    sp # <<last'.T, last'.min, last'.max>> => tengine'[sp] = tengine[sp]
              /\ tengine'[<<last'.T, last'.min, last'.max>>].draws
                    = tengine[<<last'.T, last'.min, last'.max>>].draws + 1
              /\ engine' = engine
        /\ Stepped("get_rand") =>
              /\ \A T \in Types : engine'[T].draws = engine[T].draws
              /\ tengine' = tengine
      ]_vars

\* Three engines exist, each with its own seed: the one of get_rand_impl<short>,
\* the one of get_rand_impl<unsigned short>, which drew once, and the one of
\* rand_impl<short, 1, 6>, which drew once.
C3_Witness ==
    /\ engine["short"].seeded /\ engine["ushort"].seeded
    /\ tengine[<<"short", 1, 6>>].seeded
    /\ engine["short"].seed_time # engine["ushort"].seed_time
    /\ engine["short"].seed_time # tengine[<<"short", 1, 6>>].seed_time
    /\ engine["ushort"].seed_time # tengine[<<"short", 1, 6>>].seed_time
    /\ engine["ushort"].draws = 1
    /\ tengine[<<"short", 1, 6>>].draws = 1

\* C4: invoking a sampler leaves every seed, every generators map (keys and
\* the parameters of each distribution) and every other engine as they were,
\* and advances the engine of its type by one draw.
C4_InvokeFrame ==
    [][ Stepped("f") =>
            /\ Seeds(engine') = Seeds(engine)
            /\ Seeds(tengine') = Seeds(tengine)
            /\ \A T \in Types : Keys(generators'[T]) = Keys(generators[T])
            /\ generators' = generators
            /\ tgenerator' = tgenerator
            /\ OnlyAdvanced(engine, engine', last'.T)
            /\ tengine' = tengine
      ]_vars

\* One sampler was invoked for the second time.
C4_Witness ==
    /\ Returned("f")
    /\ engine[last.T].draws >= 2
    /\ Len(samplers) = 1

\* C5: the generators map of T holds exactly one entry per distinct (min, max)
\* requested so far, each sampler's key finds exactly that one entry, and a
\* call with bounds requested before leaves the map as it is.
C5_OneEntryPerPair ==
    /\ [](~terminated =>
            /\ \A T \in Types :
                /\ Keys(generators[T]) = requested[T]
                /\ Len(generators[T]) = Cardinality(requested[T])
            /\ \A i \in 1..Len(samplers) :
                Cardinality({j \in 1..Len(generators[samplers[i].T]) :
                                generators[samplers[i].T][j].key = samplers[i].key}) = 1)
    /\ [][ ((Stepped("get_rand") \/ Stepped("rand"))
                /\ <<last'.min, last'.max>> \in requested[last'.T])
            => generators' = generators ]_vars

\* get_rand was called twice with one pair, after rand with the same pair, and
\* both closures are held.
C5_Witness ==
    /\ Returned("get_rand")
    /\ Len(samplers) = 2 /\ samplers[1] = samplers[2]
    /\ engine[last.T].draws >= 1
    /\ Len(generators[last.T]) = 1
    /\ steps = 3

IsDefaultRange(T, min, max) == min = range_min(T) /\ max = range_max(T)

\* C6: rand<T>() returns a value of [numeric_limits<T>::min(),
\* numeric_limits<T>::max()], its distribution has exactly these parameters,
\* and rand<short>() returns a value of [-32768, 32767].
C6_DefaultFullRange ==
    /\ (Returned("rand_t") /\ IsDefaultRange(last.T, last.min, last.max)) =>
            /\ InRange(last.ret, numeric_limits_min(last.T), numeric_limits_max(last.T))
            /\ last.T = "short" => InRange(last.ret, -32768, 32767)
    /\ \A T \in Types :
        LET sp == <<T, range_min(T), range_max(T)>>
        IN  (sp \in TemplateSpecs /\ tengine[sp].seeded) =>
                tgenerator[sp] = [a |-> numeric_limits_min(T), b |-> numeric_limits_max(T)]

\* rand<short>() returned 32767.
C6_Witness ==
    /\ Returned("rand_t") /\ last.T = "short"
    /\ IsDefaultRange("short", last.min, last.max)
    /\ last.ret = 32767

\* C7: every rand<T, min, max>() with min <= max returns a value of
\* [min, max]; its distribution has the parameters rand(min, max) caches for
\* the pair; a later call of the specialization leaves the distribution and
\* the seed of the specialization as they are.
C7_TemplateForm ==
    /\ []((Returned("rand_t") /\ last.min <= last.max) =>
            /\ InRange(last.ret, last.min, last.max)
            /\ tgenerator[<<last.T, last.min, last.max>>]
                    = uniform_distribution(last.min, last.max))
    /\ [][ (Stepped("rand_t") /\ tengine[<<last'.T, last'.min, last'.max>>].seeded) =>
                /\ tgenerator' = tgenerator
                /\ Seeds(tengine') = Seeds(tengine) ]_vars

\* rand<short, 1, 6>() was called twice and returned 6 the second time.
C7_Witness ==
    /\ Returned("rand_t") /\ last.T = "short" /\ last.min = 1 /\ last.max = 6
    /\ last.ret = 6
    /\ tengine[<<"short", 1, 6>>].draws = 2

\* C8 as stated: rand(min, max) and get_rand(min, max) with min > max fail with
\* InvalidRange, return nothing and cache nothing; with min <= max they return.
C8_InvalidRange ==
    (last.op \in {"rand", "get_rand"}) =>
        IF last.min > last.max
        THEN /\ last.status = "InvalidRange"
             /\ last.ret = NoValue
             /\ ~contains(generators[last.T], <<last.min, last.max>>)
        ELSE last.status = "ok"

IsPrefix(m1, m2) == Len(m1) <= Len(m2) /\ \A i \in 1..Len(m1) : m2[i] = m1[i]

\* C10: every entry keyed (min, max) holds a distribution of parameters
\* (min, max); the key of every held sampler is present; rand(min, max) leaves
\* an entry for its pair; entries are never removed or changed.
C10_CacheInvariant ==
    /\ [](/\ \A T \in Types : \A i \in 1..Len(generators[T]) :
                generators[T][i].dist =
                    [a |-> generators[T][i].key[1], b |-> generators[T][i].key[2]]
          /\ \A i \in 1..Len(samplers) :
                \E j \in 1..Len(generators[samplers[i].T]) :
                    generators[samplers[i].T][j].key = samplers[i].key
          /\ Returned("rand") =>
                \E j \in 1..Len(generators[last.T]) :
                    generators[last.T][j].key = <<last.min, last.max>>)
    /\ [][\A T \in Types : IsPrefix(generators[T], generators'[T])]_vars

\* rand(min, max) added the second entry of a map while a sampler of the
\* first entry is held and was invoked.
C10_Witness ==
    /\ Returned("rand")
    /\ Len(generators[last.T]) = 2
    /\ generators[last.T][2].key = <<last.min, last.max>>
    /\ Len(samplers) = 1 /\ samplers[1].T = last.T
    /\ engine[last.T].draws = 2

\* C9: no call of get_rand<T> and no invocation of a sampler ever waits for
\* another thread: whatever the other thread is inside, each thread can enter
\* and leave its accesses of generators and engine.
C9_NoSynchronization ==
    \A t \in Threads :
        /\ (steps < MaxSteps /\ thr[t].pc \in {"idle", "held"}) =>
                \A T \in Types : \A p \in ValidPairs(T) :
                    ENABLED T_GetRand(t, T, p[1], p[2])
        /\ (steps < MaxSteps /\ thr[t].pc = "held") => ENABLED T_Invoke(t)
        /\ thr[t].pc = "emplace" => ENABLED T_Emplaced(t)
        /\ thr[t].pc = "lookup" => ENABLED T_Looked(t)
        /\ thr[t].pc = "draw" => ENABLED T_Drawn(t)

\* One thread is inside generators.emplace, inserting a key the map of T does
\* not hold, while the other is inside generators[key] on the same map.
C9_Witness ==
    \E t, u \in Threads :
        /\ t # u /\ thr[t].T = thr[u].T
        /\ thr[t].pc = "emplace" /\ ~contains(generators[thr[t].T], thr[t].key)
        /\ thr[u].pc = "lookup"

\* Both threads are inside distribution(engine) on the engine of one type.
C9_EngineRace ==
    \E t, u \in Threads :
        t # u /\ thr[t].T = thr[u].T /\ thr[t].pc = "draw" /\ thr[u].pc = "draw"

====
